---- MODULE Spec2Model ----
(***************************************************************************)
(* Model of src/src/rand_indices.rs: the two pair samplers                 *)
(*   random_distinct_index_tuple_ordered_except_good  (rejection loop)    *)
(*   random_distinct_index_tuple_ordered_except_fast  (single pass)       *)
(* and the validate_inputs precondition check they share.                  *)
(*                                                                         *)
(* Every call of the randomness source is an input of the model: the      *)
(* action that performs the call picks its outcome with \E from the set   *)
(* of outcomes the call can produce.  Probabilities are counted exactly,  *)
(* as integer weights over the enumerated outcomes.                        *)
(***************************************************************************)
EXTENDS Integers, FiniteSets, Sequences, TLC

\* Largest len (and largest denied index) a call is tried with.
MaxLen == 5
\* The counter of randomness-source calls saturates here (the loop itself
\* is never cut off).
MaxDraws == 4

VARIABLES
    op,         \* which operation was called: "none", "good", "fast"
    len,        \* argument len
    deny,       \* argument deny, <<deny_a, deny_b>> as passed by the caller
    pc,         \* position inside the call
    a,          \* local a (-1 before it is drawn)
    b,          \* local b (-1 before it is drawn)
    raw,        \* fast: the inner b of the else-branch, before the remap
    idx,        \* fast: the index returned by sample_weighted
    draws,      \* number of calls made to the randomness source
    result,     \* the returned tuple, <<>> while there is none
    panic_msg   \* the panic message, "" while there is none

vars == <<op, len, deny, pc, a, b, raw, idx, draws, result, panic_msg>>

----------------------------------------------------------------------------
(* Pure helpers                                                            *)

\* validate_inputs: "ok" when it returns, otherwise the panic it raises.
validate_inputs_lt2(l, d) ==
    LET deny_a == d[1]
        deny_b == d[2]
    IN  IF l < 2 THEN "not enough indices to pick from"
        ELSE IF deny_a = deny_b THEN "denied indices must be distinct"
        ELSE IF deny_a >= l THEN "tuple is not fully contained in range"
        ELSE IF deny_b >= l THEN "tuple is not fully contained in range"
        ELSE "ok"

validate_inputs(l, d) ==
    LET deny_a == d[1]
        deny_b == d[2]
    IN  IF l < 3 THEN "not enough indices to pick from"
        ELSE IF deny_a = deny_b THEN "denied indices must be distinct"
        ELSE IF deny_a >= l THEN "tuple is not fully contained in range"
        ELSE IF deny_b >= l THEN "tuple is not fully contained in range"
        ELSE "ok"

\* A Rust half-open range start..end.
Range(s, e) == [start |-> s, end |-> e]

\* ExactSizeIterator::len of a range: 0 when end <= start.
range_len(r) == IF r.end > r.start THEN r.end - r.start ELSE 0

\* gen_range(r): the values the call can return; empty means it panics.
gen_range(r) == {x \in r.start .. (r.end - 1) : TRUE}

\* rand::seq::index::sample(rng, len, 2): two distinct indices, in draw order.
index_sample_repeat(l) == (0 .. l - 1) \X (0 .. l - 1)

index_sample(l) == {dr \in (0 .. l - 1) \X (0 .. l - 1) : dr[1] # dr[2]}

\* if a > b { mem::swap(&mut a, &mut b); } (a, b)
ordered(x, y) == IF x > y THEN <<y, x>> ELSE <<x, y>>

\* The break condition of the loop of the good variant.
good_accept_typo(x, y, d) ==
    LET deny_a == d[1]
        deny_b == d[2]
    IN  (x # deny_a /\ x # deny_b) \/ (y # deny_a)

good_accept_both(x, y, d) ==
    LET deny_a == d[1]
        deny_b == d[2]
    IN  (x # deny_a /\ x # deny_b) /\ (y # deny_a /\ y # deny_b)

good_accept(x, y, d) ==
    LET deny_a == d[1]
        deny_b == d[2]
    IN  (x # deny_a /\ x # deny_b) \/ (y # deny_a /\ y # deny_b)

\* fast: the test that sends the call into the weighted-range branch.
fast_is_denied(x, d) == x = d[1] \/ x = d[2]

\* fast: if deny_a > deny_b { mem::swap(&mut deny_a, &mut deny_b); }
deny_sorted(d) == IF d[1] > d[2] THEN <<d[2], d[1]>> ELSE d

\* fast: the vec of three ranges, indexed 0..2 as in the source.
fast_ranges_unsorted(l, d) ==
    LET deny_a == d[1]
        deny_b == d[2]
    IN  [i \in 0 .. 2 |->
            IF i = 0 THEN Range(0, deny_a)
            ELSE IF i = 1 THEN Range(deny_a + 1, deny_b)
            ELSE Range(deny_b + 1, l)]

fast_ranges_closed(l, d) ==
    LET deny_a == deny_sorted(d)[1]
        deny_b == deny_sorted(d)[2]
    IN  [i \in 0 .. 2 |->
            IF i = 0 THEN Range(0, deny_a)
            ELSE IF i = 1 THEN Range(deny_a, deny_b)
            ELSE Range(deny_b + 1, l)]

fast_ranges(l, d) ==
    LET deny_a == deny_sorted(d)[1]
        deny_b == deny_sorted(d)[2]
    IN  [i \in 0 .. 2 |->
            IF i = 0 THEN Range(0, deny_a)
            ELSE IF i = 1 THEN Range(deny_a + 1, deny_b)
            ELSE Range(deny_b + 1, l)]

\* fast: the weight closure |i| ranges[i].len() as f64.
fast_weight_flat(rs, i) == 1

fast_weight(rs, i) == range_len(rs[i])

\* sample_weighted(rng, 3, weight, 1): the indices it can return, an index
\* being returned with probability proportional to its weight; empty means
\* there is nothing to select and the unwrap panics.
sample_weighted(rs) == {i \in 0 .. 2 : fast_weight(rs, i) > 0}

\* fast, else-branch: if a == b { len - 1 } else { b }
fast_remap_len(x, r, l) == IF x = r THEN l ELSE r

fast_remap(x, r, l) == IF x = r THEN l - 1 ELSE r

\* fast, else-branch: the range the inner b is drawn from, 0..len - 1.
fast_raw_range_full(l) == Range(0, l)

fast_raw_range(l) == Range(0, l - 1)

\* The saturating count of randomness-source calls.
count_draw(n) == IF n < MaxDraws THEN n + 1 ELSE n

----------------------------------------------------------------------------
(* The state machine                                                       *)

Init ==
    /\ op = "none"
    /\ len = 0
    /\ deny = <<0, 0>>
    /\ pc = "idle"
    /\ a = -1
    /\ b = -1
    /\ raw = -1
    /\ idx = -1
    /\ draws = 0
    /\ result = <<>>
    /\ panic_msg = ""

\* Entry of random_distinct_index_tuple_ordered_except_good: validate_inputs.
GoodCall(l, d) ==
    /\ pc = "idle"
    /\ op' = "good"
    /\ len' = l
    /\ deny' = d
    /\ IF validate_inputs(l, d) = "ok"
       THEN pc' = "good_loop" /\ panic_msg' = panic_msg
       ELSE pc' = "panicked" /\ panic_msg' = validate_inputs(l, d)
    /\ UNCHANGED <<a, b, raw, idx, draws, result>>

\* One iteration of the loop: sample two indices, break when accepted; the
\* accepted draw is ordered and returned.
GoodDraw(x, y) ==
    /\ pc = "good_loop"
    /\ <<x, y>> \in index_sample(len)
    /\ a' = x
    /\ b' = y
    /\ draws' = count_draw(draws)
    /\ IF good_accept(x, y, deny)
       THEN pc' = "returned" /\ result' = ordered(x, y)
       ELSE pc' = "good_loop" /\ result' = result
    /\ UNCHANGED <<op, len, deny, raw, idx, panic_msg>>

\* Entry of random_distinct_index_tuple_ordered_except_fast: validate_inputs.
FastCall(l, d) ==
    /\ pc = "idle"
    /\ op' = "fast"
    /\ len' = l
    /\ deny' = d
    /\ IF validate_inputs(l, d) = "ok"
       THEN pc' = "fast_draw_a" /\ panic_msg' = panic_msg
       ELSE pc' = "panicked" /\ panic_msg' = validate_inputs(l, d)
    /\ UNCHANGED <<a, b, raw, idx, draws, result>>

\* let mut a = self.gen_range(0..len); then the branch on a.
FastDrawA(x) ==
    /\ pc = "fast_draw_a"
    /\ x \in gen_range(Range(0, len))
    /\ a' = x
    /\ draws' = count_draw(draws)
    /\ pc' = IF fast_is_denied(x, deny) THEN "fast_select" ELSE "fast_draw_raw"
    /\ UNCHANGED <<op, len, deny, b, raw, idx, result, panic_msg>>

\* The sort of deny, the three ranges and sample_weighted(..).unwrap().index(0).
FastSelectRange ==
    /\ pc = "fast_select"
    /\ LET rs == fast_ranges(len, deny)
       IN  IF sample_weighted(rs) = {}
           THEN /\ pc' = "panicked"
                /\ panic_msg' = "called unwrap on an Err value"
                /\ idx' = idx
           ELSE /\ \E i \in sample_weighted(rs) : idx' = i
                /\ pc' = "fast_gen_range"
                /\ panic_msg' = panic_msg
    /\ draws' = count_draw(draws)
    /\ UNCHANGED <<op, len, deny, a, b, raw, result>>

\* self.gen_range(ranges[idx].clone()), then the final ordering and return.
FastGenRange ==
    /\ pc = "fast_gen_range"
    /\ LET r == fast_ranges(len, deny)[idx]
       IN  IF gen_range(r) = {}
           THEN /\ pc' = "panicked"
                /\ panic_msg' = "cannot sample empty range"
                /\ UNCHANGED <<b, result>>
           ELSE /\ \E y \in gen_range(r) :
                      /\ b' = y
                      /\ result' = ordered(a, y)
                /\ pc' = "returned"
                /\ panic_msg' = panic_msg
    /\ draws' = count_draw(draws)
    /\ UNCHANGED <<op, len, deny, a, raw, idx>>

\* The else-branch: the inner b from 0..len - 1, the remap, then the final
\* ordering and return.
FastDrawRaw(r) ==
    /\ pc = "fast_draw_raw"
    /\ r \in gen_range(fast_raw_range(len))
    /\ raw' = r
    /\ b' = fast_remap(a, r, len)
    /\ result' = ordered(a, fast_remap(a, r, len))
    /\ draws' = count_draw(draws)
    /\ pc' = "returned"
    /\ UNCHANGED <<op, len, deny, a, idx, panic_msg>>

Next ==
    \/ \E l \in 0 .. MaxLen : \E d \in (0 .. MaxLen) \X (0 .. MaxLen) : GoodCall(l, d)
    \/ \E x \in 0 .. MaxLen : \E y \in 0 .. MaxLen : GoodDraw(x, y)
    \/ \E l \in 0 .. MaxLen : \E d \in (0 .. MaxLen) \X (0 .. MaxLen) : FastCall(l, d)
    \/ \E x \in 0 .. MaxLen : FastDrawA(x)
    \/ FastSelectRange
    \/ FastGenRange
    \/ \E r \in 0 .. MaxLen : FastDrawRaw(r)

Spec == Init /\ [][Next]_vars

----------------------------------------------------------------------------
(* The outcomes and exact weights of a whole call, enumerated from the     *)
(* same helpers the actions use.                                           *)

\* good: number of ordered draws of one iteration that are accepted and
\* returned as the pair p.
good_count(l, d, p) ==
    Cardinality({dr \in index_sample(l) :
                    good_accept(dr[1], dr[2], d) /\ ordered(dr[1], dr[2]) = p})

\* good: what one iteration does with the draw dr.
good_iteration(l, d, dr) ==
    IF good_accept(dr[1], dr[2], d)
    THEN <<"return", ordered(dr[1], dr[2])>>
    ELSE <<"retry", <<>>>>

\* fast: every run of a validated call, as <<a, idx, draw, returned pair>>
\* (idx is -1 in the else-branch, where draw is the inner b before the remap).
fast_paths(l, d) ==
    LET rs == fast_ranges(l, d)
    IN  UNION {
            IF fast_is_denied(x, d)
            THEN UNION {{<<x, i, y, ordered(x, y)>> : y \in gen_range(rs[i])} :
                            i \in sample_weighted(rs)}
            ELSE {<<x, -1, r, ordered(x, fast_remap(x, r, l))>> :
                            r \in gen_range(fast_raw_range(l))}
            : x \in gen_range(Range(0, l))}

\* fast: the pairs a validated call can return.
fast_outcomes(l, d) == {path[4] : path \in fast_paths(l, d)}

\* Product of the lengths of the non-empty ranges, and the total weight.
fast_len_product(rs) ==
    LET f(i) == IF range_len(rs[i]) > 0 THEN range_len(rs[i]) ELSE 1
    IN  f(0) * f(1) * f(2)

fast_total_weight(rs) == fast_weight(rs, 0) + fast_weight(rs, 1) + fast_weight(rs, 2)

\* fast, weighted-range branch: the probability that b = y, as a numerator
\* over fast_total_weight(rs) * fast_len_product(rs): range i is selected
\* with probability weight(i) / total weight, and y is then drawn from it
\* with probability 1 / range_len.
fast_denied_b_weight(l, d, y) ==
    LET rs == fast_ranges(l, d)
        term(i) == IF i \in sample_weighted(rs) /\ y \in gen_range(rs[i])
                   THEN fast_weight(rs, i) * (fast_len_product(rs) \div range_len(rs[i]))
                   ELSE 0
    IN  term(0) + term(1) + term(2)

\* fast: the probability that the call draws a = x and then b = y, as a
\* numerator over l * (l - 1) * fast_total_weight(rs) * fast_len_product(rs).
fast_draw_weight(l, d, x, y) ==
    LET rs == fast_ranges(l, d)
    IN  IF fast_is_denied(x, d)
        THEN (l - 1) * fast_denied_b_weight(l, d, y)
        ELSE Cardinality({r \in gen_range(fast_raw_range(l)) : fast_remap(x, r, l) = y})
                * fast_total_weight(rs) * fast_len_product(rs)

\* fast: the probability of returning the pair p (p[1] < p[2]), same scale.
fast_pair_weight(l, d, p) ==
    fast_draw_weight(l, d, p[1], p[2]) + fast_draw_weight(l, d, p[2], p[1])

----------------------------------------------------------------------------
(* Vocabulary of the properties                                            *)

ValidInput(l, d) == l >= 3 /\ d[1] # d[2] /\ d[1] < l /\ d[2] < l

ValidPairs(l, d) ==
    {p \in (0 .. l - 1) \X (0 .. l - 1) : p[1] < p[2] /\ {p[1], p[2]} # {d[1], d[2]}}

Swapped(d) == <<d[2], d[1]>>

Called == pc # "idle"

Running == pc \notin {"idle", "panicked"}

----------------------------------------------------------------------------
(* Properties                                                              *)

\* C1: every pair returned by either operation satisfies
\* 0 <= low < high < len and {low, high} # {deny_a, deny_b}.
C1_ResultValid ==
    pc = "returned" =>
        /\ Len(result) = 2
        /\ 0 <= result[1]
        /\ result[1] < result[2]
        /\ result[2] < len
        /\ {result[1], result[2]} # {deny[1], deny[2]}

C1_Witness ==
    /\ pc = "returned"
    /\ op = "fast"
    /\ fast_is_denied(a, deny)
    /\ deny[1] > deny[2]
    /\ result = <<b, a>>

\* C2: a call panics exactly when len < 3, or deny_a = deny_b, or
\* deny_a >= len, or deny_b >= len; the decision is the same for both
\* operations and is taken before the randomness source is used.
C2_AbortExactly ==
    Called =>
        /\ (pc = "panicked") <=>
               (len < 3 \/ deny[1] = deny[2] \/ deny[1] >= len \/ deny[2] >= len)
        /\ pc = "panicked" => (draws = 0 /\ result = <<>>)

C2_Witness ==
    /\ pc = "panicked"
    /\ op = "fast"
    /\ len >= 3
    /\ deny[1] < len
    /\ deny[2] = len

\* C3: good returns every valid pair with the same probability: every valid
\* pair is produced by the same positive number of ordered draws, and no
\* other pair by any.
C3_GoodUniform ==
    (op = "good" /\ Running) =>
        \E k \in 1 .. len * len :
            \A p \in (0 .. len - 1) \X (0 .. len - 1) :
                good_count(len, deny, p) = IF p \in ValidPairs(len, deny) THEN k ELSE 0

C3_Witness ==
    /\ op = "good"
    /\ pc = "returned"
    /\ len = 5
    /\ deny = <<1, 2>>
    /\ Cardinality(ValidPairs(len, deny)) = 9
    /\ result = <<0, 1>>

\* C4: fast returns every valid pair with the same probability.
C4_FastUniform ==
    (op = "fast" /\ Running) =>
        \A p, q \in ValidPairs(len, deny) :
            fast_pair_weight(len, deny, p) = fast_pair_weight(len, deny, q)

\* C5: the set of pairs fast can return is exactly the valid-pair set.
C5_FastSupport ==
    (op = "fast" /\ Running) => fast_outcomes(len, deny) = ValidPairs(len, deny)

C5_Witness ==
    /\ op = "fast"
    /\ pc = "returned"
    /\ len = 4
    /\ deny = <<0, 3>>
    /\ result = <<1, 2>>

\* C6: under a fair randomness source the retry loop of good eventually
\* returns, and the loop is only ever re-entered after a draw that is the
\* forbidden pair (there is no iteration cap).
C6_GoodTerminates ==
    /\ (pc = "good_loop") ~> (pc = "returned")
    /\ [][(pc = "good_loop" /\ pc' = "good_loop") =>
              {a', b'} = {deny[1], deny[2]}]_vars

C6_Witness ==
    /\ op = "good"
    /\ pc = "returned"
    /\ draws >= 3

\* C7: a validated call of fast never panics and returns after exactly two
\* calls of the randomness source (a, b) or three (a, range selection, b),
\* and every step before the return can be taken.
C7_FastBounded ==
    op = "fast" =>
        /\ pc = "panicked" => draws = 0
        /\ pc = "returned" => draws = (IF fast_is_denied(a, deny) THEN 3 ELSE 2)
        /\ pc = "fast_draw_a" => gen_range(Range(0, len)) # {}
        /\ pc = "fast_draw_raw" => gen_range(fast_raw_range(len)) # {}
        /\ pc = "fast_select" => fast_total_weight(fast_ranges(len, deny)) = len - 2
        /\ pc = "fast_select" => sample_weighted(fast_ranges(len, deny)) # {}
        /\ pc = "fast_gen_range" => gen_range(fast_ranges(len, deny)[idx]) # {}

C7_Witness ==
    /\ op = "fast"
    /\ pc = "returned"
    /\ draws = 3
    /\ len = 3

\* C8: deny = (x, y) and deny = (y, x) give the same abort decision and, for
\* the same draws, the same accepted draw and the same returned pair.
C8_DenyUnordered ==
    Called =>
        /\ (validate_inputs(len, deny) = "ok") <=>
               (validate_inputs(len, Swapped(deny)) = "ok")
        /\ Running =>
               /\ \A dr \in index_sample(len) :
                      good_iteration(len, deny, dr) = good_iteration(len, Swapped(deny), dr)
               /\ fast_paths(len, deny) = fast_paths(len, Swapped(deny))

C8_Witness ==
    /\ pc = "returned"
    /\ op = "fast"
    /\ deny = <<3, 1>>
    /\ a = 3
    /\ idx = 1
    /\ result = <<2, 3>>

\* C9: in the weighted-range branch of fast the three ranges are
\* [0, deny_low), (deny_low, deny_high), (deny_high, len), each weighted by
\* its length; an empty range is never selected; b is uniform over the
\* len - 2 indices other than the two denied ones.
C9_DeniedBranchUniform ==
    (op = "fast" /\ pc \in {"fast_select", "fast_gen_range"}) =>
        LET rs == fast_ranges(len, deny)
            lo == IF deny[1] < deny[2] THEN deny[1] ELSE deny[2]
            hi == IF deny[1] < deny[2] THEN deny[2] ELSE deny[1]
        IN  /\ gen_range(rs[0]) = {x \in 0 .. len - 1 : x < lo}
            /\ gen_range(rs[1]) = {x \in 0 .. len - 1 : lo < x /\ x < hi}
            /\ gen_range(rs[2]) = {x \in 0 .. len - 1 : hi < x}
            /\ \A i \in 0 .. 2 : fast_weight(rs, i) = Cardinality(gen_range(rs[i]))
            /\ pc = "fast_gen_range" => Cardinality(gen_range(rs[idx])) > 0
            /\ \E k \in 1 .. len * len :
                   \A y \in 0 .. len - 1 :
                       fast_denied_b_weight(len, deny, y) =
                           IF y \in {deny[1], deny[2]} THEN 0 ELSE k

C9_Witness ==
    /\ op = "fast"
    /\ pc = "fast_gen_range"
    /\ len = 5
    /\ deny = <<1, 0>>
    /\ idx = 2

\* C10: in the else-branch of fast, for every a in 0..len, the remap of the
\* inner draw r in 0..len - 1 is a bijection onto 0..len without a.
C10_RemapBijection ==
    (op = "fast" /\ Running) =>
        /\ \A x \in 0 .. len - 1 :
               LET rawset == gen_range(fast_raw_range(len))
                   image == {fast_remap(x, r, len) : r \in rawset}
               IN  /\ image = (0 .. len - 1) \ {x}
                   /\ Cardinality(rawset) = Cardinality(image)
        /\ (pc = "returned" /\ raw # -1) => (b # a /\ b < len /\ b >= 0)

C10_Witness ==
    /\ op = "fast"
    /\ pc = "returned"
    /\ raw = a
    /\ b = len - 1
    /\ ~fast_is_denied(a, deny)

\* The loop of good leaves with an accepted draw.
GoodAccepting == \E x \in 0 .. MaxLen : \E y \in 0 .. MaxLen : GoodDraw(x, y) /\ pc' = "returned"

\* A fair randomness source: it does not reproduce the forbidden pair forever.
FairSpec == Spec /\ WF_vars(GoodAccepting)

====
